---------------------------- MODULE Spec2Model ----------------------------
(***************************************************************************)
(* py14 C++ back end (src/py14/transpiler.py) over the shared C-like       *)
(* emitter (src/common/clike.py).                                          *)
(*                                                                         *)
(* The tree walk of CppTranspiler is modelled one statement visit at a     *)
(* time.  Emitted text is kept as the exact strings the format calls       *)
(* build.  A failing visit (a raised exception) aborts the whole           *)
(* transpile.                                                              *)
(***************************************************************************)
EXTENDS Integers, Sequences, FiniteSets, TLC

VARIABLES
    pc,               \* position of transpile(): "idle", "visiting", "done", "failed"
    _vars,            \* CppTranspiler._vars
    _function_stack,  \* CppTranspiler._function_stack
    frames,           \* activations of visit_Module / visit_FunctionDef / visit_If
    cpp,              \* the value transpile() returned last
    log,              \* calls made by the current transpile, in call order
    results,          \* (tree, cpp) of every transpile that returned, in order
    nodes,            \* statements visited so far, over all invocations
    runs,             \* transpile invocations so far
    calls,            \* transpile invocations the caller makes
    limit             \* statements the caller's sources hold in all

vars ==
    <<pc, _vars, _function_stack, frames, cpp, log, results, nodes, runs, calls, limit>>

-----------------------------------------------------------------------------
(* Bounds of the explored inputs *)

MaxNodes == 3
MaxArgs == 2
MaxRuns == 2
MaxRunNodes == 2

-----------------------------------------------------------------------------
(* Syntax tree nodes of the input, as delivered by ast.parse *)

Constant(n) == [type |-> "Constant", n |-> n]
Str(s) == [type |-> "Str", s |-> s]
Name(id) == [type |-> "Name", id |-> id]
List(elts) == [type |-> "List", elts |-> elts]
Tuple(elts) == [type |-> "Tuple", elts |-> elts]
Index(value) == [type |-> "Index", value |-> value]
Subscript(value, slice) == [type |-> "Subscript", value |-> value, slice |-> slice]
Call(func, args) == [type |-> "Call", func |-> func, args |-> args]
Op(type) == [type |-> type]
Compare(left, op, right) ==
    [type |-> "Compare", left |-> left, ops |-> <<Op(op)>>, comparators |-> <<right>>]
Assign(target, value) == [type |-> "Assign", targets |-> <<target>>, value |-> value]
Expr(value) == [type |-> "Expr", value |-> value]
Return(value) == [type |-> "Return", value |-> value]
FunctionDef(name, args, body) ==
    [type |-> "FunctionDef", name |-> name, args |-> args, body |-> body]
If(test, body) == [type |-> "If", test |-> test, body |-> body, orelse |-> <<>>]
Module(body) == [type |-> "Module", body |-> body]

-----------------------------------------------------------------------------
(* Text helpers *)

Ok(text) == [ok |-> TRUE, text |-> text]
Raise(err) == [ok |-> FALSE, text |-> err]

RECURSIVE Join(_, _)
Join(sep, strs) ==
    IF strs = <<>> THEN ""
    ELSE IF Len(strs) = 1 THEN strs[1]
    ELSE strs[1] \o sep \o Join(sep, Tail(strs))

FilterNone(strs) == SelectSeq(strs, LAMBDA s : s # "")

RECURSIVE Lines(_)
(* the lines of a text *)
Lines(s) ==
    LET nl == {i \in 1..Len(s) : SubSeq(s, i, i) = "\n"}
    IN  IF nl = {} THEN <<s>>
        ELSE LET k == CHOOSE i \in nl : \A j \in nl : i <= j
             IN  <<SubSeq(s, 1, k - 1)>> \o Lines(SubSeq(s, k + 1, Len(s)))

StartsWith(s, p) == Len(s) >= Len(p) /\ SubSeq(s, 1, Len(p)) = p

EndsWith(s, p) == Len(s) >= Len(p) /\ SubSeq(s, Len(s) - Len(p) + 1, Len(s)) = p

-----------------------------------------------------------------------------
(* src/common/clike.py: the operator table and the shared handlers *)

symbols ==
    [Eq |-> "==", Is |-> "==", NotEq |-> "!=", Pass |-> "/*pass*/", Mult |-> "*",
     Add |-> "+", Sub |-> "-", Div |-> "/", FloorDiv |-> "/", Mod |-> "%",
     Lt |-> "<", Gt |-> ">", GtE |-> ">=", LtE |-> "<=", LShift |-> "<<",
     RShift |-> ">>", BitXor |-> "^", BitOr |-> "|", BitAnd |-> "&", Not |-> "!",
     IsNot |-> "!=", USub |-> "-", And |-> "&&", Or |-> "||", In |-> "in"]

c_symbol(node) == symbols[node.type]

builtin_constants == [True |-> "true", False |-> "false"]

CLike_visit_Name(node) ==
    IF node.id \in DOMAIN builtin_constants
    THEN Ok(builtin_constants[node.id])
    ELSE Ok(node.id)

visit_Constant(node) == Ok(ToString(node.n))

CLike_visit_Str(node) == Ok("\"" \o node.s \o "\"")

-----------------------------------------------------------------------------
(* The type inference consulted by the emitter (tracer.decltype).           *)
(* TypeDescriptors are rendered by name.                                    *)

RECURSIVE decltype(_)
decltype(node) ==
    CASE node.type = "Constant" -> Ok("Int")
      [] node.type = "Str" -> Ok("Str")
      [] node.type = "Name" /\ node.id \in DOMAIN builtin_constants -> Ok("Bool")
      [] node.type = "List" ->
            IF node.elts = <<>>
            THEN Ok("Container(Unknown-until-first-element)")
            ELSE LET e == decltype(node.elts[1])
                 IN  IF e.ok THEN Ok("Container(" \o e.text \o ")") ELSE e
      [] node.type = "Assign" -> decltype(node.value)
      [] OTHER -> Raise("TypeInferenceError")

-----------------------------------------------------------------------------
(* src/py14/transpiler.py: expression handlers of CppTranspiler *)

visit_Str(node) ==
    LET s == CLike_visit_Str(node) IN Ok(s.text \o "s")

visit_Name(node) ==
    IF node.id = "None" THEN Ok("nullptr") ELSE CLike_visit_Name(node)

RECURSIVE visit(_)
RECURSIVE visit_each(_)
RECURSIVE visit_Compare(_)
RECURSIVE visit_Call(_)
RECURSIVE visit_List(_)
RECURSIVE visit_Subscript(_)
RECURSIVE visit_Tuple(_)

(* [self.visit(e) for e in nodes]: the texts, or the first exception raised *)
visit_each(seq) ==
    IF seq = <<>> THEN [ok |-> TRUE, texts |-> <<>>, text |-> ""]
    ELSE LET h == visit(Head(seq))
         IN  IF ~h.ok THEN [ok |-> FALSE, texts |-> <<>>, text |-> h.text]
             ELSE LET t == visit_each(Tail(seq))
                  IN  IF ~t.ok THEN t
                      ELSE [ok |-> TRUE, texts |-> <<h.text>> \o t.texts, text |-> ""]

visit_Compare(node) ==
    LET left == visit(node.left)
        op == visit(node.ops[1])
        right == visit(node.comparators[1])
    IN  IF ~left.ok THEN left
        ELSE IF ~right.ok THEN right
        ELSE Ok(left.text \o " " \o op.text \o " " \o right.text)

visit_Call(node) ==
    LET fname == visit(node.func)
        args == visit_each(node.args)
    IN  IF ~fname.ok THEN fname
        ELSE IF ~args.ok THEN Raise(args.text)
        ELSE LET a == Join(", ", args.texts)
             IN  CASE fname.text = "int" -> Ok("py14::to_int(" \o a \o ")")
                   [] fname.text = "str" -> Ok("std::to_string(" \o a \o ")")
                   [] fname.text = "max" -> Ok("std::max(" \o a \o ")")
                   [] fname.text \in {"range", "xrange"} -> Ok("py14::range(" \o a \o ")")
                   [] fname.text = "len" -> Ok("py14::len(" \o a \o ")")
                   [] OTHER -> Ok(fname.text \o "(" \o a \o ")")

visit_List(node) ==
    IF Len(node.elts) > 0
    THEN LET elements == visit_each(node.elts)
             value_type == decltype(node.elts[1])
         IN  IF ~elements.ok THEN Raise(elements.text)
             ELSE IF ~value_type.ok THEN value_type
             ELSE Ok("std::vector<" \o value_type.text \o ">{"
                     \o Join(", ", elements.texts) \o "}")
    ELSE Raise("ValueError: Cannot create vector without elements")

visit_Subscript(node) ==
    IF node.slice.type = "Ellipsis"
    THEN Raise("NotImplementedError: Ellipsis not supported")
    ELSE IF node.slice.type # "Index"
    THEN Raise("NotImplementedError: Advanced Slicing not supported")
    ELSE LET value == visit(node.value)
             idx == visit(node.slice.value)
         IN  IF ~value.ok THEN value
             ELSE IF ~idx.ok THEN idx
             ELSE Ok(value.text \o "[" \o idx.text \o "]")

visit_Tuple(node) ==
    LET elts == visit_each(node.elts)
    IN  IF ~elts.ok THEN Raise(elts.text)
        ELSE Ok("std::make_tuple(" \o Join(", ", elts.texts) \o ")")

(* CLikeTranspiler.visit, then ast.NodeVisitor's dispatch on the node class *)
visit(node) ==
    IF node.type \in DOMAIN symbols THEN Ok(c_symbol(node))
    ELSE CASE node.type = "Constant" -> visit_Constant(node)
           [] node.type = "Str" -> visit_Str(node)
           [] node.type = "Name" -> visit_Name(node)
           [] node.type = "Compare" -> visit_Compare(node)
           [] node.type = "Call" -> visit_Call(node)
           [] node.type = "List" -> visit_List(node)
           [] node.type = "Subscript" -> visit_Subscript(node)
           [] node.type = "Tuple" -> visit_Tuple(node)

-----------------------------------------------------------------------------
(* Recursion analysis consulted by visit_FunctionDef (tracer.is_recursive): *)
(* true iff some call in the function's body has the function's own name    *)
(* as its bare-name callee.                                                 *)

RECURSIVE callees(_)
RECURSIVE callees_each(_)
callees_each(seq) ==
    IF seq = <<>> THEN {} ELSE callees(Head(seq)) \cup callees_each(Tail(seq))

callees(node) ==
    CASE node.type = "Call" ->
            (IF node.func.type = "Name" THEN {node.func.id} ELSE {})
                \cup callees_each(node.args)
      [] node.type \in {"List", "Tuple"} -> callees_each(node.elts)
      [] node.type = "Subscript" -> callees(node.value) \cup callees(node.slice.value)
      [] node.type = "Compare" -> callees(node.left) \cup callees_each(node.comparators)
      [] node.type = "Assign" -> callees_each(node.targets) \cup callees(node.value)
      [] node.type \in {"Expr", "Return"} -> callees(node.value)
      [] node.type = "FunctionDef" -> callees_each(node.body)
      [] node.type = "If" -> callees(node.test) \cup callees_each(node.body)
      [] OTHER -> {}

is_recursive(node) == node.name \in callees_each(node.body)

-----------------------------------------------------------------------------
(* src/py14/transpiler.py and src/common/clike.py: statement handlers *)

shared_vars == _vars

new_vars == {}

new_function_stack == <<>>

declare(declared, target) == declared \cup {target}

Done(text, declared) == [ok |-> TRUE, text |-> text, vars |-> declared]
Fail(err, declared) == [ok |-> FALSE, text |-> err, vars |-> declared]

tie_assign(node, declared) ==
    LET elts == visit_each(node.targets[1].elts)
        value == visit(node.value)
    IN  IF ~elts.ok THEN Fail(elts.text, declared)
        ELSE IF ~value.ok THEN Fail(value.text, declared)
        ELSE Done("std::tie(" \o Join(", ", elts.texts) \o ") = " \o value.text \o ";",
                  declared)

plain_assign(node, declared) ==
    LET target == visit(node.targets[1])
        value == visit(node.value)
    IN  IF ~target.ok THEN Fail(target.text, declared)
        ELSE IF ~value.ok THEN Fail(value.text, declared)
        ELSE Done(target.text \o " = " \o value.text \o ";", declared)

list_declaration(node, declared) ==
    LET elements == visit_each(node.value.elts)
        type == decltype(node)
        target == visit(node.targets[1])
    IN  IF ~elements.ok THEN Fail(elements.text, declared)
        ELSE IF ~type.ok THEN Fail(type.text, declared)
        ELSE IF ~target.ok THEN Fail(target.text, declared)
        ELSE Done(type.text \o " " \o target.text \o " {"
                      \o Join(", ", elements.texts) \o "};",
                  declared)

auto_declaration(node, declared) ==
    LET target == visit(node.targets[1])
        value == visit(node.value)
    IN  IF ~target.ok THEN Fail(target.text, declared)
        ELSE IF ~value.ok THEN Fail(value.text, declared)
        ELSE Done("auto " \o target.text \o " = " \o value.text \o ";",
                  declare(declared, target.text))

visit_Assign(node, declared) ==
    LET target == node.targets[1]
    IN  IF target.type = "Tuple" THEN tie_assign(node, declared)
        ELSE IF target.type = "Name" /\ target.id \in declared
        THEN plain_assign(node, declared)
        ELSE IF node.value.type = "List" THEN list_declaration(node, declared)
        ELSE IF target.type = "Subscript" THEN plain_assign(node, declared)
        ELSE auto_declaration(node, declared)

visit_Expr(node) ==
    LET s == visit(node.value)
    IN  IF ~s.ok THEN s
        ELSE IF s.text = "" \/ EndsWith(s.text, ";")
        THEN (IF s.text = ";" THEN Ok("") ELSE s)
        ELSE Ok(s.text \o ";")

visit_Return(node) ==
    IF node.value.type # "NoValue"
    THEN LET v == visit(node.value)
         IN  IF v.ok THEN Ok("return " \o v.text \o ";") ELSE v
    ELSE Ok("return;")

same_template_args(args, idx) ==
    [i \in 1..Len(args) |-> [T |-> "T1", id |-> args[i].id]]

RECURSIVE template_args(_, _)
(* args of template_fun: ("T" + str(idx + 1), arg.id) for each argument *)
template_args(args, idx) ==
    IF idx >= Len(args) THEN <<>>
    ELSE <<[T |-> "T" \o ToString(idx + 1), id |-> args[idx + 1].id]>>
             \o template_args(args, idx + 1)

template_fun(node) ==
    LET args == template_args(node.args, 0)
        typenames == [i \in 1..Len(args) |-> "typename " \o args[i].T]
        template == "template <" \o Join(", ", typenames) \o ">"
        params == [i \in 1..Len(args) |-> args[i].T \o " " \o args[i].id]
    IN  template \o "\nauto " \o node.name \o "(" \o Join(", ", params) \o ")"

lambda_fun(node) ==
    LET params == [i \in 1..Len(node.args) |-> "auto " \o node.args[i].id]
    IN  "auto " \o node.name \o " = [](" \o Join(", ", params) \o ")"

function_body(buf) == " {\n" \o Join("\n", buf) \o "\n}"

function_text(node, buf, recursive) ==
    IF recursive
    THEN template_fun(node) \o function_body(buf)
    ELSE lambda_fun(node) \o function_body(buf) \o ";"

main_test == "__name__ == \"__main__\"s"

main_buffer_argv_last(buf) ==
    <<"int main(int argc, char ** argv) {">> \o buf
        \o <<"py14::sys::argv = std::vector<std::string>(argv, argv + argc);", "}">>

main_buffer(buf) ==
    <<"int main(int argc, char ** argv) {",
      "py14::sys::argv = std::vector<std::string>(argv, argv + argc);">>
        \o buf \o <<"}">>

CLike_visit_If(test, buf) ==
    Join("\n", <<"if(" \o test \o ") {">> \o buf \o <<"}">>)

if_text(test, buf) ==
    IF test = main_test THEN Join("\n", main_buffer(buf)) ELSE CLike_visit_If(test, buf)

module_text(lines) == Join("\n", FilterNone(lines))

-----------------------------------------------------------------------------
(* The inputs explored: statements of the tree handed to the emitter *)

Names == {"x", "y"}

Targets ==
    {Name(n) : n \in Names}
        \cup {Tuple(<<Name("x"), Name("y")>>),
              Subscript(Name("x"), Index(Constant(0)))}

Values == {Constant(1), List(<<Constant(1)>>), List(<<>>)}

AssignPool == {Assign(t, v) : t \in Targets, v \in Values}

ExprPool == {Expr(List(<<>>)), Expr(List(<<Constant(1)>>))}

ArgNames == <<"n", "m", "k", "j">>

ArgLists == {[i \in 1..k |-> Name(ArgNames[i])] : k \in 0..MaxArgs}

ReturnPool(f) == {Return(Call(Name(f.name), f.args)), Return(Constant(1))}

TestPool ==
    {Compare(Name("__name__"), "Eq", Str("__main__")),
     Compare(Str("__main__"), "Eq", Name("__name__"))}

-----------------------------------------------------------------------------
(* The walk *)

ModuleFrame == [kind |-> "Module", id |-> 0, name |-> "", args |-> <<>>,
                test |-> Op("Pass"), test_text |-> "", body |-> <<>>, buf |-> <<>>]

top == frames[Len(frames)]

RECURSIVE scope_of(_)
(* the innermost function body a statement of these activations lies in;   *)
(* 0 is the module                                                          *)
scope_of(fs) ==
    IF fs = <<>> THEN 0
    ELSE IF fs[Len(fs)].kind = "FunctionDef" THEN fs[Len(fs)].id
    ELSE scope_of(SubSeq(fs, 1, Len(fs) - 1))

child_done(fs, node, text) ==
    [fs EXCEPT ![Len(fs)].body = Append(@, node), ![Len(fs)].buf = Append(@, text)]

(* log entries: a visit that returned text, a visit that raised, a call of  *)
(* is_recursive; before and after are _vars around the call                *)
visited(id, fs, node, text, before, after) ==
    [ev |-> "visit", id |-> id, parent |-> fs[Len(fs)].id, scope |-> scope_of(fs),
     node |-> node, text |-> text, before |-> before, after |-> after]

raised(id, fs, node, err, before) ==
    [ev |-> "raise", id |-> id, parent |-> fs[Len(fs)].id, scope |-> scope_of(fs),
     node |-> node, text |-> err, before |-> before, after |-> before]

analysed(f, node, recursive, declared) ==
    [ev |-> "is_recursive", id |-> f.id, parent |-> f.id, scope |-> f.id,
     node |-> node, text |-> "", before |-> declared, after |-> declared,
     result |-> recursive]

function_exit_twice(f, outer, node, recursive, text, declared) ==
    <<analysed(f, node, recursive, declared),
      analysed(f, node, recursive, declared),
      visited(f.id, outer, node, text, declared, declared)>>

(* the calls visit_FunctionDef makes once the body is visited *)
function_exit(f, outer, node, recursive, text, declared) ==
    <<analysed(f, node, recursive, declared),
      visited(f.id, outer, node, text, declared, declared)>>

Idle ==
    /\ pc = "idle"
    /\ _vars = {}
    /\ _function_stack = <<>>
    /\ frames = <<>>
    /\ cpp = ""
    /\ log = <<>>
    /\ results = <<>>
    /\ nodes = 0
    /\ runs = 0

(* one source of up to MaxNodes statements is transpiled *)
Init == Idle /\ calls = 1 /\ limit = MaxNodes

(* up to MaxRuns sources of up to MaxRunNodes statements in all are         *)
(* transpiled one after the other                                           *)
InitRuns == Idle /\ calls = MaxRuns /\ limit = MaxRunNodes

(* transpile(source): a CppTranspiler is constructed and walks the tree *)
Transpile ==
    /\ pc \in {"idle", "done", "failed"}
    /\ runs < calls
    /\ runs' = runs + 1
    /\ pc' = "visiting"
    /\ _vars' = new_vars
    /\ _function_stack' = new_function_stack
    /\ frames' = <<ModuleFrame>>
    /\ cpp' = ""
    /\ log' = <<>>
    /\ UNCHANGED <<results, nodes, calls, limit>>

(* a simple statement returned text r for the enclosing activation, or raised *)
Simple(node, r, declared) ==
    /\ nodes' = nodes + 1
    /\ IF r.ok
       THEN /\ frames' = child_done(frames, node, r.text)
            /\ _vars' = declared
            /\ log' = Append(log,
                  visited(nodes + 1, frames, node, r.text, _vars, declared))
            /\ pc' = pc
       ELSE /\ frames' = <<>>
            /\ _vars' = _vars
            /\ log' = Append(log, raised(nodes + 1, frames, node, r.text, _vars))
            /\ pc' = "failed"
    /\ UNCHANGED <<_function_stack, cpp, results, runs, calls, limit>>

VisitAssign ==
    /\ pc = "visiting"
    /\ nodes < limit
    /\ \E node \in AssignPool :
          LET r == visit_Assign(node, _vars) IN Simple(node, r, r.vars)

VisitExpr ==
    /\ pc = "visiting"
    /\ nodes < limit
    /\ \E node \in ExprPool : Simple(node, visit_Expr(node), _vars)

VisitReturn ==
    /\ pc = "visiting"
    /\ nodes < limit
    /\ _function_stack # <<>>
    /\ \E node \in ReturnPool(_function_stack[Len(_function_stack)]) :
          Simple(node, visit_Return(node), _vars)

(* visit_FunctionDef up to the visit of the body *)
EnterFunctionDef ==
    /\ pc = "visiting"
    /\ nodes + 2 <= limit
    /\ \E args \in ArgLists :
          LET f == [kind |-> "FunctionDef", id |-> nodes + 1, name |-> "f",
                    args |-> args, test |-> Op("Pass"), test_text |-> "",
                    body |-> <<>>, buf |-> <<>>]
          IN  /\ _function_stack' = Append(_function_stack, f)
              /\ frames' = Append(frames, f)
    /\ nodes' = nodes + 1
    /\ UNCHANGED <<pc, _vars, cpp, log, results, runs, calls, limit>>

(* visit_FunctionDef from the end of the body to its return *)
ExitFunctionDef ==
    /\ pc = "visiting"
    /\ top.kind = "FunctionDef"
    /\ top.body # <<>>
    /\ LET node == FunctionDef(top.name, top.args, top.body)
           recursive == is_recursive(node)
           text == function_text(node, top.buf, recursive)
           outer == SubSeq(frames, 1, Len(frames) - 1)
       IN  /\ _function_stack' = SubSeq(_function_stack, 1, Len(_function_stack) - 1)
           /\ frames' = child_done(outer, node, text)
           /\ log' = log \o function_exit(top, outer, node, recursive, text, _vars)
    /\ UNCHANGED <<pc, _vars, cpp, results, nodes, runs, calls, limit>>

(* visit_If up to the visit of the body *)
EnterIf ==
    /\ pc = "visiting"
    /\ nodes + 2 <= limit
    /\ \E test \in TestPool :
          LET t == visit(test)
          IN  frames' = Append(frames,
                  [kind |-> "If", id |-> nodes + 1, name |-> "", args |-> <<>>,
                   test |-> test, test_text |-> t.text, body |-> <<>>, buf |-> <<>>])
    /\ nodes' = nodes + 1
    /\ UNCHANGED <<pc, _vars, _function_stack, cpp, log, results, runs, calls, limit>>

(* visit_If from the end of the body to its return *)
ExitIf ==
    /\ pc = "visiting"
    /\ top.kind = "If"
    /\ top.body # <<>>
    /\ LET node == If(top.test, top.body)
           text == if_text(top.test_text, top.buf)
           outer == SubSeq(frames, 1, Len(frames) - 1)
       IN  /\ frames' = child_done(outer, node, text)
           /\ log' = Append(log, visited(top.id, outer, node, text, _vars, _vars))
    /\ UNCHANGED <<pc, _vars, _function_stack, cpp, results, nodes, runs, calls, limit>>

(* visit_Module returns and transpile returns its text *)
ExitModule ==
    /\ pc = "visiting"
    /\ top.kind = "Module"
    /\ LET text == module_text(top.buf)
       IN  /\ cpp' = text
           /\ results' = Append(results, [tree |-> Module(top.body), cpp |-> text])
    /\ pc' = "done"
    /\ frames' = <<>>
    /\ UNCHANGED <<_vars, _function_stack, log, nodes, runs, calls, limit>>

Next ==
    \/ Transpile
    \/ VisitAssign
    \/ VisitExpr
    \/ VisitReturn
    \/ EnterFunctionDef
    \/ ExitFunctionDef
    \/ EnterIf
    \/ ExitIf
    \/ ExitModule

Spec == Init /\ [][Next]_vars

SpecRuns == InitRuns /\ [][Next]_vars

-----------------------------------------------------------------------------
(* Properties *)

Visits == {i \in DOMAIN log : log[i].ev = "visit"}

(* emitted assignments whose target is a bare name *)
NameAssigns ==
    {i \in Visits : log[i].node.type = "Assign"
                      /\ log[i].node.targets[1].type = "Name"}

TargetId(i) == log[i].node.targets[1].id

IsPlainReassignment(i) == StartsWith(log[i].text, TargetId(i) \o " = ")

(* C1: in one scope of one CppTranspiler, once an assignment to bare name x *)
(* has been emitted, whatever its right side, every later assignment to x   *)
(* in that scope is emitted as the plain reassignment "x = value;".         *)
C1_DeclaredOnce ==
    \A i, j \in NameAssigns :
        (i < j /\ TargetId(i) = TargetId(j) /\ log[i].scope = log[j].scope)
            => IsPlainReassignment(j)

(* C2: after visit_Assign has emitted the typed-container declaration for   *)
(* an undeclared bare name with a list literal on the right, the name is    *)
(* in _vars.                                                                *)
C2_ListDeclarationMarksDeclared ==
    \A i \in NameAssigns :
        (log[i].node.value.type = "List" /\ TargetId(i) \notin log[i].before)
            => TargetId(i) \in log[i].after

IsEmptyList(node) == node.type = "List" /\ node.elts = <<>>

(* C3: no visit of a statement that is an empty list literal, or assigns    *)
(* one, returns text: it always raises.                                     *)
C3_EmptyListAlwaysFails ==
    \A i \in Visits :
        log[i].node.type \in {"Expr", "Assign"} => ~IsEmptyList(log[i].node.value)

TupleAssigns ==
    {i \in DOMAIN log : log[i].node.type = "Assign"
                          /\ log[i].node.targets[1].type = "Tuple"}

TupleIds(i) ==
    {log[i].node.targets[1].elts[k].id : k \in DOMAIN log[i].node.targets[1].elts}

(* C4: an assignment to a tuple is emitted (as std::tie) only when every    *)
(* name of the tuple is already declared; otherwise the visit raises.       *)
C4_TieOnlyDeclaredNames ==
    \A i \in TupleAssigns :
        /\ log[i].ev = "visit" => TupleIds(i) \subseteq log[i].before
        /\ ~(TupleIds(i) \subseteq log[i].before) => log[i].ev = "raise"

SubscriptAssigns ==
    {i \in Visits : log[i].node.type = "Assign"
                      /\ log[i].node.targets[1].type = "Subscript"}

C6_DeclarationsPerScope ==
    \A j \in NameAssigns :
        (\A i \in NameAssigns :
            ~(i < j /\ TargetId(i) = TargetId(j) /\ log[i].scope = log[j].scope))
            => ~IsPlainReassignment(j)

(* the texts returned by the visits of the statements of activation id,     *)
(* in the order of the visits                                               *)
ChildTexts(id) ==
    LET children == SelectSeq(log, LAMBDA e : e.ev = "visit" /\ e.parent = id /\ e.id # id)
    IN  [k \in DOMAIN children |-> children[k].text]

FunctionDefs == {i \in Visits : log[i].node.type = "FunctionDef"}

Analyses(id) == {i \in DOMAIN log : log[i].ev = "is_recursive" /\ log[i].id = id}

TypeParam(k) == "T" \o ToString(k)

ExpectedBody(i) == " {\n" \o Join("\n", ChildTexts(log[i].id)) \o "\n}"

ExpectedTemplate(node) ==
    "template <"
        \o Join(", ", [k \in DOMAIN node.args |-> "typename " \o TypeParam(k)])
        \o ">\nauto " \o node.name \o "("
        \o Join(", ", [k \in DOMAIN node.args |-> TypeParam(k) \o " " \o node.args[k].id])
        \o ")"

ExpectedLambda(node) ==
    "auto " \o node.name \o " = []("
        \o Join(", ", [k \in DOMAIN node.args |-> "auto " \o node.args[k].id])
        \o ")"

(* C7: visit_FunctionDef returns one of two forms, chosen by the result of  *)
(* is_recursive alone: true gives the template function with one type       *)
(* parameter T1..Tn per argument in argument order, false gives the lambda  *)
(* bound to the function's name with 'auto' parameters and a closing ';'.   *)
(* Both forms carry the same body, the visited statements in order.         *)
C7_FunctionForms ==
    \A i \in FunctionDefs :
        \A a \in Analyses(log[i].id) :
            IF log[a].result
            THEN log[i].text = ExpectedTemplate(log[i].node) \o ExpectedBody(i)
            ELSE log[i].text = ExpectedLambda(log[i].node) \o ExpectedBody(i) \o ";"

C7_Witness ==
    \E i \in FunctionDefs :
        /\ Len(log[i].node.args) = 2
        /\ \E a \in Analyses(log[i].id) : log[a].result

MainIfs ==
    {i \in Visits : log[i].node.type = "If"
                      /\ log[i].node.test
                           = Compare(Name("__name__"), "Eq", Str("__main__"))}

RECURSIVE LinesOfAll(_)
LinesOfAll(texts) ==
    IF texts = <<>> THEN <<>> ELSE Lines(Head(texts)) \o LinesOfAll(Tail(texts))

(* C8: for "if __name__ == '__main__':" visit_If returns int main, whose    *)
(* second line wires argv into py14::sys::argv, followed by the text of     *)
(* every statement of the body, once each and in the order of the body,     *)
(* and closed by "}".                                                       *)
C8_MainEntryPoint ==
    \A i \in MainIfs :
        LET L == Lines(log[i].text)
            body == ChildTexts(log[i].id)
        IN  /\ Len(body) = Len(log[i].node.body)
            /\ Len(L) >= 3
            /\ L[1] = "int main(int argc, char ** argv) {"
            /\ L[2] = "py14::sys::argv = std::vector<std::string>(argv, argv + argc);"
            /\ SubSeq(L, 3, Len(L) - 1) = LinesOfAll(body)
            /\ L[Len(L)] = "}"

C8_Witness ==
    \E i \in MainIfs :
        /\ Len(log[i].node.body) = 2
        /\ log[i].node.body[1] # log[i].node.body[2]

(* C9: every transpile starts with an empty _vars and an empty               *)
(* _function_stack, whatever earlier invocations did, and two invocations   *)
(* on the same tree return the same text.                                   *)
C9_FreshContextPerInvocation ==
    /\ (pc = "visiting" /\ frames = <<ModuleFrame>>)
          => (_vars = {} /\ _function_stack = <<>>)
    /\ \A i, j \in DOMAIN results :
          results[i].tree = results[j].tree => results[i].cpp = results[j].cpp

C9_Witness ==
    /\ Len(results) >= 2
    /\ results[1].tree = results[2].tree
    /\ StartsWith(results[2].cpp, "auto x = ")

BodyVisits(id) == {j \in Visits : log[j].parent = id /\ log[j].id # id}

(* C10 as stated: is_recursive runs before any statement of the function's  *)
(* body is visited.                                                         *)
C10_AnalysisBeforeBody ==
    \A i \in FunctionDefs :
        /\ Cardinality(Analyses(log[i].id)) = 1
        /\ \A a \in Analyses(log[i].id) : \A j \in BodyVisits(log[i].id) : a < j

(* C10 amended: is_recursive runs exactly once per emission of a function,  *)
(* after every statement of the function's body has been visited and        *)
(* before the function's text is returned.                                  *)
C10_AnalysisOnceAfterBody ==
    \A i \in FunctionDefs :
        /\ Cardinality(Analyses(log[i].id)) = 1
        /\ \A a \in Analyses(log[i].id) :
              /\ a < i
              /\ \A j \in BodyVisits(log[i].id) : j < a

C10_Witness ==
    \E i \in FunctionDefs : Cardinality(BodyVisits(log[i].id)) = 2

=============================================================================
